---- MODULE Spec2Model ----
(***************************************************************************)
(* HoneyProtocol: the three FRAME pallets pallet-access (role registry),   *)
(* pallet-patient (pair-keyed consent ledger and record store) and         *)
(* pallet-doctor (requester-indexed bounded lists), as one state machine.  *)
(*                                                                         *)
(* Option<T> is modelled as a sequence of length at most one: <<>> is None *)
(* and <<x>> is Some(x).  A storage map with OptionQuery is a function     *)
(* from keys to Option values; a ValueQuery map of BoundedVec is a         *)
(* function from keys to sequences (the default is the empty sequence).    *)
(*                                                                         *)
(* Every operation runs as one extrinsic of the current block: it observes *)
(* (random, extrinsic_index, block_number) and leaves its outcome in       *)
(* result (Ok or the error) and event (the event it deposited, if any).    *)
(***************************************************************************)
EXTENDS Integers, Sequences, FiniteSets

VARIABLES
    Roles,                      \* pallet-access  Roles: set of registered roles
    MemberRoles,                \* pallet-access  MemberRoles[role][user]: Option<bool>
    patient_DataMap,            \* pallet-patient DataMap[account]: Option<Patients>
    patient_RequestMap,         \* pallet-patient RequestMap[patient][requester]: Option<id>
    patient_AprovedRequestMap,  \* pallet-patient AprovedRequestMap[patient][requester]: Option<id>
    doctor_DataMap,             \* pallet-doctor  DataMap[account]: Option<Doctors>
    doctor_RequestMap,          \* pallet-doctor  RequestMap[requester]: BoundedVec<AccountId>
    doctor_AprovedRequestMap,   \* pallet-doctor  AprovedRequestMap[requester]: BoundedVec<AccountId>
    block_number,               \* frame_system   block number
    extrinsic_index,            \* frame_system   index of the extrinsic being applied
    random,                     \* the randomness seed of the current block
    call,                       \* the last operation and its account arguments
    result,                     \* its outcome: Ok, the error, or Panic
    event                       \* the event it deposited

accessVars  == <<Roles, MemberRoles>>
patientVars == <<patient_DataMap, patient_RequestMap, patient_AprovedRequestMap>>
doctorVars  == <<doctor_DataMap, doctor_RequestMap, doctor_AprovedRequestMap>>
systemVars  == <<block_number, extrinsic_index, random>>
storageVars == <<accessVars, patientVars, doctorVars>>
vars        == <<accessVars, patientVars, doctorVars, systemVars, call, result, event>>

----------------------------------------------------------------------------
(* Bounds of the model.                                                    *)

NumAccounts == 3
NumParties == 2
MaxBlock == 2
MaxExtrinsics == 3

(* Accounts are the keys of every storage map.  Parties are the accounts   *)
(* that sign, and are named in, pallet-access and pallet-patient calls.    *)
Accounts == 1..NumAccounts
Parties == 1..NumParties

(* Configured constants of the runtime (Config associated types).          *)
MaxNameLength == 1
MaxEmailLength == 1
MaxListLength == 2

(* Role ids: 0 stands for [0u8; 32].                                       *)
ZeroRole == 0
AllRoles == {0}

Seeds == {7}

(* Arguments of a registration: a name and an email within their bounds    *)
(* with either payload, and one too long a name, one too long an email.    *)
Hashes == {<<>>, << <<1>> >>}
Registrations ==
    {[name |-> <<65>>, email |-> <<66>>, data_hash |-> h] : h \in Hashes}
    \cup {[name |-> <<65, 65>>, email |-> <<66>>, data_hash |-> <<>>],
          [name |-> <<65>>, email |-> <<66, 66>>, data_hash |-> <<>>]}
None == <<>>
Some(x) == <<x>>
IsSome(o) == o # <<>>
Unwrap(o) == o[1]

Root == [kind |-> "Root", who |-> 0]
Signed(a) == [kind |-> "Signed", who |-> a]
Signers(S) == {Signed(a) : a \in S}
Origins(S) == {Root} \cup Signers(S)

NoEvent == [kind |-> "NoEvent"]

----------------------------------------------------------------------------
(* Outcome of an operation that returns Err(e) before writing anything.    *)
Fail(e) ==
    /\ result' = e
    /\ event' = NoEvent
    /\ UNCHANGED storageVars

ensure_signed(origin) == origin.kind = "Signed"
ensure_root(origin) == origin.kind = "Root"

----------------------------------------------------------------------------
(* pallet-access                                                           *)

(* assign_role refusing every key that exists, whatever its flag.          *)
assign_role_rejects_existing_key(user, new_role) ==
    IF new_role \notin Roles THEN Fail("InvalidRole")
    ELSE IF IsSome(MemberRoles[new_role][user]) THEN Fail("AlreadyHasRole")
    ELSE /\ MemberRoles' = [MemberRoles EXCEPT ![new_role][user] = Some(TRUE)]
         /\ result' = "Ok"
         /\ event' = [kind |-> "RoleAssigned", user |-> user, role |-> new_role]
         /\ UNCHANGED <<Roles, patientVars, doctorVars>>

assign_role(user, new_role) ==
    IF new_role \notin Roles THEN Fail("InvalidRole")
    ELSE IF IsSome(MemberRoles[new_role][user]) /\ Unwrap(MemberRoles[new_role][user])
    THEN Fail("AlreadyHasRole")
    ELSE /\ MemberRoles' = [MemberRoles EXCEPT ![new_role][user] = Some(TRUE)]
         /\ result' = "Ok"
         /\ event' = [kind |-> "RoleAssigned", user |-> user, role |-> new_role]
         /\ UNCHANGED <<Roles, patientVars, doctorVars>>

revoke_role(user, new_role) ==
    IF new_role \notin Roles THEN Fail("InvalidRole")
    ELSE IF ~IsSome(MemberRoles[new_role][user]) THEN Fail("NotAssigned")
    ELSE IF ~Unwrap(MemberRoles[new_role][user]) THEN Fail("NotAssigned")
    ELSE /\ MemberRoles' = [MemberRoles EXCEPT ![new_role][user] = Some(FALSE)]
         /\ result' = "Ok"
         /\ event' = [kind |-> "RoleRevoked", user |-> user, role |-> new_role]
         /\ UNCHANGED <<Roles, patientVars, doctorVars>>

(* validate_role with the flag's value ignored: an existing key passes.     *)
validate_role_ignores_flag(user, new_role) ==
    IF new_role \notin Roles THEN "InvalidRole"
    ELSE IF ~IsSome(MemberRoles[new_role][user]) THEN "NotAssigned"
    ELSE "Ok"

(* validate_role writes nothing: it is the Result it returns.              *)
validate_role(user, new_role) ==
    IF new_role \notin Roles THEN "InvalidRole"
    ELSE IF ~IsSome(MemberRoles[new_role][user]) THEN "NotAssigned"
    ELSE IF ~Unwrap(MemberRoles[new_role][user]) THEN "AccessDenied"
    ELSE "Ok"

assign(origin, user, new_role) ==
    IF ~ensure_root(origin) THEN Fail("BadOrigin")
    ELSE assign_role(user, new_role)

revoke(origin, user, new_role) ==
    IF ~ensure_root(origin) THEN Fail("BadOrigin")
    ELSE revoke_role(user, new_role)

has_role(origin, user, new_role) ==
    IF ~ensure_signed(origin) THEN Fail("BadOrigin")
    ELSE /\ result' = validate_role(user, new_role)
         /\ event' = NoEvent
         /\ UNCHANGED storageVars

(* Pallet::validate is called by pallet-patient but not defined in the     *)
(* pallet-access source: it is the role check of has_role, as a Result.    *)
validate(origin, user, new_role) ==
    IF ~ensure_signed(origin) THEN "BadOrigin"
    ELSE validate_role(user, new_role)

----------------------------------------------------------------------------
(* pallet-patient                                                          *)

(* SCALE encoding of the tuple (the concatenation of its fields) and the   *)
(* 128-bit digest of the bytes.  The digest is symbolic: a constructor     *)
(* over the hashed bytes, so two digests are equal exactly when their      *)
(* inputs are (collision resistance of Blake2 is assumed, not checked).    *)
encode(unique_payload) == <<unique_payload[1], unique_payload[2], unique_payload[3]>>
blake2_128(bytes) == [blake2_128 |-> bytes]

(* gen_request_id hashing the seed and the block number alone.             *)
gen_request_id_without_index ==
    LET unique_payload == <<random, 0, block_number>>
        encoded_payload == encode(unique_payload)
    IN  blake2_128(encoded_payload)

gen_request_id ==
    LET unique_payload == <<random, extrinsic_index, block_number>>
        encoded_payload == encode(unique_payload)
    IN  blake2_128(encoded_payload)

(* register without its first ensure!: a second registration replaces the  *)
(* profile.                                                                *)
patient_register_overwrites(patient_account, name, email, data_hash) ==
    IF Len(name) > MaxNameLength THEN Fail("BoundsOverflow")
    ELSE IF Len(email) > MaxEmailLength THEN Fail("BoundsOverflow")
    ELSE /\ patient_DataMap' = [patient_DataMap EXCEPT ![patient_account] =
                Some([name |-> name, email |-> email, data_hash |-> data_hash])]
         /\ result' = "Ok"
         /\ event' = [kind |-> "PatientDataUpdated",
                      patient_account_id |-> patient_account, name |-> name]
         /\ UNCHANGED <<accessVars, patient_RequestMap, patient_AprovedRequestMap, doctorVars>>

patient_register(patient_account, name, email, data_hash) ==
    IF IsSome(patient_DataMap[patient_account]) THEN Fail("AlreadyRegistered")
    ELSE IF Len(name) > MaxNameLength THEN Fail("BoundsOverflow")
    ELSE IF Len(email) > MaxEmailLength THEN Fail("BoundsOverflow")
    ELSE /\ patient_DataMap' = [patient_DataMap EXCEPT ![patient_account] =
                Some([name |-> name, email |-> email, data_hash |-> data_hash])]
         /\ result' = "Ok"
         /\ event' = [kind |-> "PatientDataUpdated",
                      patient_account_id |-> patient_account, name |-> name]
         /\ UNCHANGED <<accessVars, patient_RequestMap, patient_AprovedRequestMap, doctorVars>>

(* patient_request without its guard: a second request overwrites the id.  *)
patient_request_overwrites(request_unique_id, requester, patient_account_id) ==
    /\ patient_RequestMap' =
            [patient_RequestMap EXCEPT ![patient_account_id][requester] =
                Some(request_unique_id)]
    /\ result' = "Ok"
    /\ event' = [kind |-> "RequestQueued", requester |-> requester,
                 patient_account_id |-> patient_account_id,
                 request_unique_id |-> request_unique_id]
    /\ UNCHANGED <<accessVars, patient_DataMap, patient_AprovedRequestMap, doctorVars>>

patient_request(request_unique_id, requester, patient_account_id) ==
    IF IsSome(patient_RequestMap[patient_account_id][requester])
    THEN Fail("OnlyOneRequestAllowed")
    ELSE /\ patient_RequestMap' =
                [patient_RequestMap EXCEPT ![patient_account_id][requester] =
                    Some(request_unique_id)]
         /\ result' = "Ok"
         /\ event' = [kind |-> "RequestQueued", requester |-> requester,
                      patient_account_id |-> patient_account_id,
                      request_unique_id |-> request_unique_id]
         /\ UNCHANGED <<accessVars, patient_DataMap, patient_AprovedRequestMap, doctorVars>>

(* patient_approve minting a new id at approval instead of keeping the     *)
(* request's.                                                              *)
patient_approve_fresh_id(patient_account_id, requester) ==
    IF ~IsSome(patient_RequestMap[patient_account_id][requester])
    THEN Fail("NoRequest")
    ELSE LET request_unique_id == gen_request_id
         IN  /\ patient_RequestMap' =
                    [patient_RequestMap EXCEPT ![patient_account_id][requester] = None]
             /\ patient_AprovedRequestMap' =
                    [patient_AprovedRequestMap EXCEPT ![patient_account_id][requester] =
                        Some(request_unique_id)]
             /\ result' = "Ok"
             /\ event' = [kind |-> "RequestApproved", requester |-> requester,
                          patient_account_id |-> patient_account_id,
                          request_unique_id |-> request_unique_id]
             /\ UNCHANGED <<accessVars, patient_DataMap, doctorVars>>

(* patient_approve without the RequestMap::remove.                         *)
patient_approve_keeps_pending(patient_account_id, requester) ==
    IF ~IsSome(patient_RequestMap[patient_account_id][requester])
    THEN Fail("NoRequest")
    ELSE LET request_unique_id == Unwrap(patient_RequestMap[patient_account_id][requester])
         IN  /\ patient_AprovedRequestMap' =
                    [patient_AprovedRequestMap EXCEPT ![patient_account_id][requester] =
                        Some(request_unique_id)]
             /\ result' = "Ok"
             /\ event' = [kind |-> "RequestApproved", requester |-> requester,
                          patient_account_id |-> patient_account_id,
                          request_unique_id |-> request_unique_id]
             /\ UNCHANGED <<accessVars, patient_DataMap, patient_RequestMap, doctorVars>>

patient_approve(patient_account_id, requester) ==
    IF ~IsSome(patient_RequestMap[patient_account_id][requester])
    THEN Fail("NoRequest")
    ELSE LET request_unique_id == Unwrap(patient_RequestMap[patient_account_id][requester])
         IN  /\ patient_RequestMap' =
                    [patient_RequestMap EXCEPT ![patient_account_id][requester] = None]
             /\ patient_AprovedRequestMap' =
                    [patient_AprovedRequestMap EXCEPT ![patient_account_id][requester] =
                        Some(request_unique_id)]
             /\ result' = "Ok"
             /\ event' = [kind |-> "RequestApproved", requester |-> requester,
                          patient_account_id |-> patient_account_id,
                          request_unique_id |-> request_unique_id]
             /\ UNCHANGED <<accessVars, patient_DataMap, doctorVars>>

register_patient_self(origin, name, email, data_hash) ==
    IF ~ensure_signed(origin) THEN Fail("BadOrigin")
    ELSE patient_register(origin.who, name, email, data_hash)

(* register_patient without the call of validate.                          *)
register_patient_unvalidated(origin, patient_account_id, name, email, data_hash) ==
    IF ~ensure_signed(origin) THEN Fail("BadOrigin")
    ELSE patient_register(patient_account_id, name, email, data_hash)

register_patient(origin, patient_account_id, name, email, data_hash) ==
    IF ~ensure_signed(origin) THEN Fail("BadOrigin")
    ELSE IF validate(origin, origin.who, ZeroRole) # "Ok"
    THEN Fail(validate(origin, origin.who, ZeroRole))
    ELSE patient_register(patient_account_id, name, email, data_hash)

request_patient_data(origin, patient_account_id) ==
    IF ~ensure_signed(origin) THEN Fail("BadOrigin")
    ELSE patient_request(gen_request_id, origin.who, patient_account_id)

approve_request(origin, requester) ==
    IF ~ensure_signed(origin) THEN Fail("BadOrigin")
    ELSE patient_approve(origin.who, requester)

(* get_patient_data guarded by RequestMap instead of AprovedRequestMap.     *)
get_patient_data_checks_pending(origin, patient_account_id) ==
    IF ~ensure_signed(origin) THEN Fail("BadOrigin")
    ELSE IF ~IsSome(patient_RequestMap[patient_account_id][origin.who])
    THEN Fail("NoRequest")
    ELSE IF ~IsSome(patient_DataMap[patient_account_id]) THEN Fail("Panic")
    ELSE IF ~IsSome(Unwrap(patient_DataMap[patient_account_id]).data_hash) THEN Fail("Panic")
    ELSE /\ result' = "Ok"
         /\ event' = [kind |-> "RequestFulfilled", requester |-> origin.who,
                      patient_account_id |-> patient_account_id,
                      data_hash |-> Unwrap(Unwrap(patient_DataMap[patient_account_id]).data_hash)]
         /\ UNCHANGED storageVars

(* The two unwrap() calls panic on None: the extrinsic aborts without a    *)
(* DispatchError and without writing.                                      *)
get_patient_data(origin, patient_account_id) ==
    IF ~ensure_signed(origin) THEN Fail("BadOrigin")
    ELSE IF ~IsSome(patient_AprovedRequestMap[patient_account_id][origin.who])
    THEN Fail("NoRequest")
    ELSE IF ~IsSome(patient_DataMap[patient_account_id]) THEN Fail("Panic")
    ELSE IF ~IsSome(Unwrap(patient_DataMap[patient_account_id]).data_hash) THEN Fail("Panic")
    ELSE /\ result' = "Ok"
         /\ event' = [kind |-> "RequestFulfilled", requester |-> origin.who,
                      patient_account_id |-> patient_account_id,
                      data_hash |-> Unwrap(Unwrap(patient_DataMap[patient_account_id]).data_hash)]
         /\ UNCHANGED storageVars

Patients_default == [name |-> <<>>, email |-> <<>>, data_hash |-> None]

update_patient_data(origin, patient_account_id, data_hash) ==
    IF ~ensure_signed(origin) THEN Fail("BadOrigin")
    ELSE IF ~IsSome(patient_AprovedRequestMap[patient_account_id][origin.who])
    THEN Fail("NoRequest")
    ELSE IF validate(origin, origin.who, ZeroRole) # "Ok"
    THEN Fail(validate(origin, origin.who, ZeroRole))
    ELSE LET patient_data == IF IsSome(patient_DataMap[patient_account_id])
                             THEN Unwrap(patient_DataMap[patient_account_id])
                             ELSE Patients_default
         IN  /\ patient_DataMap' = [patient_DataMap EXCEPT ![patient_account_id] =
                    Some([patient_data EXCEPT !.data_hash = data_hash])]
             /\ result' = "Ok"
             /\ event' = [kind |-> "DataUpdated", requester |-> origin.who,
                          patient_account_id |-> patient_account_id]
             /\ UNCHANGED <<accessVars, patient_RequestMap, patient_AprovedRequestMap, doctorVars>>

----------------------------------------------------------------------------
(* pallet-doctor                                                           *)

Contains(list, x) == \E i \in 1..Len(list) : list[i] = x

(* iter().position(): the first index holding x.                           *)
Position(list, x) == CHOOSE i \in 1..Len(list) :
                        /\ list[i] = x
                        /\ \A j \in 1..(i - 1) : list[j] # x

(* A removal that truncates the list at the index.                         *)
swap_remove_truncates(list, ind) == SubSeq(list, 1, ind - 1)

(* Vec::swap_remove: the last element takes the place of the removed one.  *)
swap_remove(list, ind) ==
    LET last == Len(list)
        head == SubSeq(list, 1, last - 1)
    IN  IF ind = last THEN head ELSE [head EXCEPT ![ind] = list[last]]

doctor_register_self(doctor_account_id, personal_data_hash) ==
    IF IsSome(doctor_DataMap[doctor_account_id]) THEN Fail("AlreadyRegistered")
    ELSE /\ doctor_DataMap' = [doctor_DataMap EXCEPT ![doctor_account_id] =
                Some([personal_data_hash |-> personal_data_hash])]
         /\ result' = "Ok"
         /\ event' = [kind |-> "DoctorDataUpdated", doctor_account_id |-> doctor_account_id]
         /\ UNCHANGED <<accessVars, patientVars, doctor_RequestMap, doctor_AprovedRequestMap>>

(* add_request evicting the oldest entry of a full list.                   *)
add_request_evicts(requester, patient_account_id) ==
    LET patient_ids == doctor_RequestMap[requester]
    IN  IF Contains(patient_ids, patient_account_id) THEN Fail("AlreadyRequested")
        ELSE /\ doctor_RequestMap' = [doctor_RequestMap EXCEPT ![requester] =
                    IF Len(patient_ids) >= MaxListLength
                    THEN Append(Tail(patient_ids), patient_account_id)
                    ELSE Append(patient_ids, patient_account_id)]
             /\ result' = "Ok"
             /\ event' = [kind |-> "RequestQueued", doctor_account_id |-> requester,
                          patient_account_id |-> patient_account_id]
             /\ UNCHANGED <<accessVars, patientVars, doctor_DataMap, doctor_AprovedRequestMap>>

(* add_request without the AlreadyRequested guard.                         *)
add_request_unguarded(requester, patient_account_id) ==
    LET patient_ids == doctor_RequestMap[requester]
    IN  IF Len(patient_ids) >= MaxListLength THEN Fail("MaxListLengthReached")
        ELSE /\ doctor_RequestMap' = [doctor_RequestMap EXCEPT ![requester] =
                    Append(patient_ids, patient_account_id)]
             /\ result' = "Ok"
             /\ event' = [kind |-> "RequestQueued", doctor_account_id |-> requester,
                          patient_account_id |-> patient_account_id]
             /\ UNCHANGED <<accessVars, patientVars, doctor_DataMap, doctor_AprovedRequestMap>>

add_request(requester, patient_account_id) ==
    LET patient_ids == doctor_RequestMap[requester]
    IN  IF Contains(patient_ids, patient_account_id) THEN Fail("AlreadyRequested")
        ELSE IF Len(patient_ids) >= MaxListLength THEN Fail("MaxListLengthReached")
        ELSE /\ doctor_RequestMap' = [doctor_RequestMap EXCEPT ![requester] =
                    Append(patient_ids, patient_account_id)]
             /\ result' = "Ok"
             /\ event' = [kind |-> "RequestQueued", doctor_account_id |-> requester,
                          patient_account_id |-> patient_account_id]
             /\ UNCHANGED <<accessVars, patientVars, doctor_DataMap, doctor_AprovedRequestMap>>

(* remove_request without its ensure!: a missing entry is not an error.    *)
remove_request_outcome_unchecked(requester, patient_account_id) ==
    LET patient_ids == doctor_RequestMap[requester]
    IN  IF ~Contains(patient_ids, patient_account_id)
        THEN [result |-> "Ok", RequestMap |-> doctor_RequestMap]
        ELSE [result |-> "Ok",
              RequestMap |-> [doctor_RequestMap EXCEPT ![requester] =
                    swap_remove(patient_ids, Position(patient_ids, patient_account_id))]]

(* remove_request as a value: the Result and the RequestMap it leaves.     *)
remove_request_outcome(requester, patient_account_id) ==
    LET patient_ids == doctor_RequestMap[requester]
    IN  IF ~Contains(patient_ids, patient_account_id)
        THEN [result |-> "NoRequest", RequestMap |-> doctor_RequestMap]
        ELSE [result |-> "Ok",
              RequestMap |-> [doctor_RequestMap EXCEPT ![requester] =
                    swap_remove(patient_ids, Position(patient_ids, patient_account_id))]]

remove_request(requester, patient_account_id) ==
    LET out == remove_request_outcome(requester, patient_account_id)
    IN  /\ doctor_RequestMap' = out.RequestMap
        /\ result' = out.result
        /\ event' = NoEvent
        /\ UNCHANGED <<accessVars, patientVars, doctor_DataMap, doctor_AprovedRequestMap>>

(* remove_request has written RequestMap when the later guards are tried:  *)
(* an Err from them leaves that write in place.                            *)
add_approved_request(patient_account_id, requester) ==
    LET out == remove_request_outcome(requester, patient_account_id)
        approved_patient_ids == doctor_AprovedRequestMap[requester]
    IN  IF out.result # "Ok" THEN Fail(out.result)
        ELSE /\ doctor_RequestMap' = out.RequestMap
             /\ UNCHANGED <<accessVars, patientVars, doctor_DataMap>>
             /\ IF Contains(approved_patient_ids, patient_account_id)
                THEN /\ result' = "AlreadyApproved"
                     /\ event' = NoEvent
                     /\ UNCHANGED doctor_AprovedRequestMap
                ELSE IF Len(approved_patient_ids) >= MaxListLength
                THEN /\ result' = "MaxListLengthReached"
                     /\ event' = NoEvent
                     /\ UNCHANGED doctor_AprovedRequestMap
                ELSE /\ doctor_AprovedRequestMap' =
                            [doctor_AprovedRequestMap EXCEPT ![requester] =
                                Append(approved_patient_ids, patient_account_id)]
                     /\ result' = "Ok"
                     /\ event' = [kind |-> "RequestApproved",
                                  doctor_account_id |-> requester,
                                  patient_account_id |-> patient_account_id]

doctor_register(origin, personal_data_hash) ==
    IF ~ensure_signed(origin) THEN Fail("BadOrigin")
    ELSE doctor_register_self(origin.who, personal_data_hash)

----------------------------------------------------------------------------
(* The state after genesis: GenesisConfig.roles fills Roles, every other   *)
(* storage item is empty, and the first block is about to apply its first  *)
(* extrinsic.                                                              *)
Init ==
    /\ Roles \in SUBSET AllRoles
    /\ MemberRoles = [r \in AllRoles |-> [a \in Accounts |-> None]]
    /\ patient_DataMap = [a \in Accounts |-> None]
    /\ patient_RequestMap = [p \in Accounts |-> [r \in Accounts |-> None]]
    /\ patient_AprovedRequestMap = [p \in Accounts |-> [r \in Accounts |-> None]]
    /\ doctor_DataMap = [a \in Accounts |-> None]
    /\ doctor_RequestMap = [a \in Accounts |-> <<>>]
    /\ doctor_AprovedRequestMap = [a \in Accounts |-> <<>>]
    /\ block_number = 1
    /\ extrinsic_index = 0
    /\ random \in Seeds
    /\ call = [op |-> "genesis", who |-> 0, target |-> 0]
    /\ result = "Ok"
    /\ event = NoEvent

(* Applying one extrinsic takes the next index of the block.               *)
Extrinsic(name, who, target, Op) ==
    /\ extrinsic_index < MaxExtrinsics
    /\ Op
    /\ call' = [op |-> name, who |-> who, target |-> target]
    /\ extrinsic_index' = extrinsic_index + 1
    /\ UNCHANGED <<block_number, random>>

(* The next block starts: its extrinsics count from 0 under a new seed.    *)
NextBlock ==
    /\ block_number < MaxBlock
    /\ block_number' = block_number + 1
    /\ extrinsic_index' = 0
    /\ random' \in Seeds
    /\ UNCHANGED <<storageVars, call, result, event>>

(* The operations, with their arguments drawn from the given sets: OS are  *)
(* origins, US the accounts named in the call.                             *)
Assign(OS, US) == \E o \in OS, u \in US, r \in AllRoles :
    Extrinsic("assign", o.who, u, assign(o, u, r))
Revoke(OS, US) == \E o \in OS, u \in US, r \in AllRoles :
    Extrinsic("revoke", o.who, u, revoke(o, u, r))
HasRole(OS, US) == \E o \in OS, u \in US, r \in AllRoles :
    Extrinsic("has_role", o.who, u, has_role(o, u, r))

RegisterPatientSelf(OS) == \E o \in OS, g \in Registrations :
    Extrinsic("register_patient_self", o.who, o.who,
              register_patient_self(o, g.name, g.email, g.data_hash))
RegisterPatient(OS, US) == \E o \in OS, p \in US, g \in Registrations :
    Extrinsic("register_patient", o.who, p,
              register_patient(o, p, g.name, g.email, g.data_hash))
RequestPatientData(OS, US) == \E o \in OS, p \in US :
    Extrinsic("request_patient_data", o.who, p, request_patient_data(o, p))
ApproveRequest(OS, US) == \E o \in OS, r \in US :
    Extrinsic("approve_request", o.who, r, approve_request(o, r))
GetPatientData(OS, US) == \E o \in OS, p \in US :
    Extrinsic("get_patient_data", o.who, p, get_patient_data(o, p))
UpdatePatientData(OS, US) == \E o \in OS, p \in US, h \in Hashes :
    Extrinsic("update_patient_data", o.who, p, update_patient_data(o, p, h))

DoctorRegister(OS) == \E o \in OS, h \in Hashes :
    Extrinsic("register", o.who, o.who, doctor_register(o, h))
AddRequest(US) == \E r \in US, p \in US :
    Extrinsic("add_request", r, p, add_request(r, p))
RemoveRequest(US) == \E r \in US, p \in US :
    Extrinsic("remove_request", r, p, remove_request(r, p))
AddApprovedRequest(US) == \E p \in US, r \in US :
    Extrinsic("add_approved_request", r, p, add_approved_request(p, r))

(* pallet-access alone, called by root and by signed origins.              *)
NextAccess ==
    \/ Assign(Origins(Parties), Parties)
    \/ Revoke(Origins(Parties), Parties)
    \/ HasRole(Origins(Parties), Parties)
    \/ NextBlock

(* pallet-patient with the role registry it consults: root assigns and     *)
(* revokes roles, the parties sign the patient calls.                      *)
NextPatient ==
    \/ RegisterPatientSelf(Signers(Parties))
    \/ RegisterPatient(Signers(Parties), Parties)
    \/ RequestPatientData(Signers(Parties), Parties)
    \/ ApproveRequest(Signers(Parties), Parties)
    \/ GetPatientData(Signers(Parties), Parties)
    \/ UpdatePatientData(Signers(Parties), Parties)
    \/ Assign({Root}, Parties)
    \/ Revoke({Root}, Parties)
    \/ NextBlock

(* The requester-indexed ledger of pallet-doctor over all accounts.        *)
NextDoctor ==
    \/ AddRequest(Accounts)
    \/ RemoveRequest(Accounts)
    \/ AddApprovedRequest(Accounts)
    \/ NextBlock

(* Both ledgers side by side: the pair-keyed one of pallet-patient and the *)
(* requester-indexed one of pallet-doctor, among the parties.              *)
NextConsent ==
    \/ RequestPatientData(Signers(Parties), Parties)
    \/ ApproveRequest(Signers(Parties), Parties)
    \/ AddRequest(Parties)
    \/ RemoveRequest(Parties)
    \/ AddApprovedRequest(Parties)
    \/ NextBlock

(* Profile registration of both pallets: by the account itself, and for a  *)
(* patient by a caller that root has given the role.                       *)
NextRegister ==
    \/ RegisterPatientSelf(Origins(Parties))
    \/ RegisterPatient(Signers(Parties), Parties)
    \/ DoctorRegister(Origins(Parties))
    \/ Assign({Root}, Parties)
    \/ NextBlock

Next == NextAccess \/ NextPatient \/ NextDoctor \/ NextConsent \/ NextRegister

Spec == Init /\ [][Next]_vars
SpecAccess == Init /\ [][NextAccess]_vars
SpecPatient == Init /\ [][NextPatient]_vars
SpecDoctor == Init /\ [][NextDoctor]_vars
SpecConsent == Init /\ [][NextConsent]_vars
SpecRegister == Init /\ [][NextRegister]_vars

----------------------------------------------------------------------------
(* Properties.                                                             *)

PatientPending(owner, requester) == IsSome(patient_RequestMap[owner][requester])
PatientApproved(owner, requester) == IsSome(patient_AprovedRequestMap[owner][requester])
DoctorPending(requester, owner) == Contains(doctor_RequestMap[requester], owner)
DoctorApproved(requester, owner) == Contains(doctor_AprovedRequestMap[requester], owner)

(* This step applied the operation op with the account arguments who and   *)
(* target.                                                                 *)
Applied(op, who, target) ==
    /\ extrinsic_index' = extrinsic_index + 1
    /\ call' = [op |-> op, who |-> who, target |-> target]

ledgerVars == <<patient_RequestMap, patient_AprovedRequestMap,
                doctor_RequestMap, doctor_AprovedRequestMap>>

(* C1: in every reachable state no (owner, requester) pair is both pending *)
(* and approved, in the patient ledger and in the doctor ledger.           *)
C1_AtMostOneOfPendingApproved ==
    \A o \in Accounts, r \in Accounts :
        /\ ~(PatientPending(o, r) /\ PatientApproved(o, r))
        /\ ~(DoctorPending(r, o) /\ DoctorApproved(r, o))

(* C2: an approve_request(o, r) applied right after the successful         *)
(* request_patient_data of r for o succeeds, and the id of its             *)
(* RequestApproved event and of the stored grant is the id of the          *)
(* RequestQueued event.                                                    *)
C2_ApproveKeepsCorrelationId ==
    [][\A o \in Parties, r \in Parties :
        ( /\ call = [op |-> "request_patient_data", who |-> r, target |-> o]
          /\ result = "Ok"
          /\ event.kind = "RequestQueued"
          /\ Applied("approve_request", o, r) )
        => ( /\ result' = "Ok"
             /\ event'.kind = "RequestApproved"
             /\ event'.requester = r
             /\ event'.patient_account_id = o
             /\ event'.request_unique_id = event.request_unique_id
             /\ patient_AprovedRequestMap'[o][r] = Some(event.request_unique_id) )
      ]_vars

(* C2 witness: an approval has just succeeded carrying the stored id,      *)
(* while another pair is pending under a different id.                     *)
C2_Witness ==
    /\ call.op = "approve_request"
    /\ result = "Ok"
    /\ event.kind = "RequestApproved"
    /\ patient_AprovedRequestMap[call.who][call.target] = Some(event.request_unique_id)
    /\ \E o \in Parties, r \in Parties :
          /\ PatientPending(o, r)
          /\ patient_RequestMap[o][r] # Some(event.request_unique_id)

(* C3: a step after which a pair is approved, and before which it was not, *)
(* is a successful approve of that pair taken while the pair was pending,  *)
(* and the pair is not pending after it; in both ledgers.                  *)
C3_ApprovedOnlyFromPending ==
    [][\A o \in Accounts, r \in Accounts :
        /\ (~PatientApproved(o, r) /\ PatientApproved(o, r)')
           => ( /\ PatientPending(o, r)
                /\ ~PatientPending(o, r)'
                /\ Applied("approve_request", o, r)
                /\ result' = "Ok" )
        /\ (~DoctorApproved(r, o) /\ DoctorApproved(r, o)')
           => ( /\ DoctorPending(r, o)
                /\ ~DoctorPending(r, o)'
                /\ Applied("add_approved_request", r, o)
                /\ result' = "Ok" )
      ]_vars

(* C3 witness: a pair has just been approved in the doctor ledger and is   *)
(* no longer pending there, and a pair of the patient ledger is approved   *)
(* and not pending.                                                        *)
C3_Witness ==
    /\ call.op = "add_approved_request"
    /\ result = "Ok"
    /\ DoctorApproved(call.who, call.target)
    /\ ~DoctorPending(call.who, call.target)
    /\ \E o \in Parties, r \in Parties : PatientApproved(o, r) /\ ~PatientPending(o, r)

(* C4: an approve of a pair that is not pending fails with NoRequest,      *)
(* deposits no event and leaves the pending and approved storage of both   *)
(* ledgers as they were.                                                   *)
C4_ApproveWithoutRequestFails ==
    [][\A o \in Accounts, r \in Accounts :
        /\ (Applied("approve_request", o, r) /\ ~PatientPending(o, r))
           => (result' = "NoRequest" /\ event'.kind = "NoEvent" /\ UNCHANGED ledgerVars)
        /\ (Applied("add_approved_request", r, o) /\ ~DoctorPending(r, o))
           => (result' = "NoRequest" /\ event'.kind = "NoEvent" /\ UNCHANGED ledgerVars)
        /\ (Applied("remove_request", r, o) /\ ~DoctorPending(r, o))
           => (result' = "NoRequest" /\ event'.kind = "NoEvent" /\ UNCHANGED ledgerVars)
      ]_vars

(* C4 witness: an add_approved_request for a pair that is not pending has  *)
(* just failed with NoRequest while the requester has another request      *)
(* pending and the patient ledger holds a pending pair.                    *)
C4_Witness ==
    /\ call.op = "add_approved_request"
    /\ result = "NoRequest"
    /\ ~DoctorPending(call.who, call.target)
    /\ doctor_RequestMap[call.who] # <<>>
    /\ \E o \in Parties, r \in Parties : PatientPending(o, r)

(* C5 as stated: a request for a pair that is still pending fails with     *)
(* AlreadyRequested and leaves storage unchanged, in both ledgers.         *)
C5_SecondRequestAlreadyRequested ==
    [][\A o \in Accounts, r \in Accounts :
        /\ (Applied("request_patient_data", r, o) /\ PatientPending(o, r))
           => (result' = "AlreadyRequested" /\ UNCHANGED storageVars)
        /\ (Applied("add_request", r, o) /\ DoctorPending(r, o))
           => (result' = "AlreadyRequested" /\ UNCHANGED storageVars)
      ]_vars

(* C5 as amended: a request for a pair that is still pending fails and     *)
(* leaves storage unchanged (the pending entry keeps its id); the error is *)
(* OnlyOneRequestAllowed from pallet-patient's request_patient_data and    *)
(* AlreadyRequested from pallet-doctor's add_request.                      *)
C5_SecondRequestRejected ==
    [][\A o \in Accounts, r \in Accounts :
        /\ (Applied("request_patient_data", r, o) /\ PatientPending(o, r))
           => ( /\ result' = "OnlyOneRequestAllowed"
                /\ event'.kind = "NoEvent"
                /\ UNCHANGED storageVars )
        /\ (Applied("add_request", r, o) /\ DoctorPending(r, o))
           => ( /\ result' = "AlreadyRequested"
                /\ event'.kind = "NoEvent"
                /\ UNCHANGED storageVars )
      ]_vars

(* C5 witness: a repeated request_patient_data has just been rejected and  *)
(* the pair is still pending.                                              *)
C5_Witness ==
    /\ call.op = "request_patient_data"
    /\ result = "OnlyOneRequestAllowed"
    /\ PatientPending(call.target, call.who)

(* C6: an add_request or add_approved_request whose target list is full    *)
(* fails and leaves that list as it was (nothing evicted or overwritten,   *)
(* same length); when the account is new to the list and, for an approval, *)
(* pending, the error is MaxListLengthReached.  No list ever grows beyond  *)
(* MaxListLength.                                                          *)
C6_FullListRejectsInsert ==
    [][\A r \in Accounts, p \in Accounts :
        /\ Len(doctor_RequestMap'[r]) <= MaxListLength
        /\ Len(doctor_AprovedRequestMap'[r]) <= MaxListLength
        /\ (Applied("add_request", r, p) /\ Len(doctor_RequestMap[r]) = MaxListLength)
           => ( /\ result' # "Ok"
                /\ doctor_RequestMap'[r] = doctor_RequestMap[r]
                /\ ~DoctorPending(r, p) => result' = "MaxListLengthReached" )
        /\ ( /\ Applied("add_approved_request", r, p)
             /\ Len(doctor_AprovedRequestMap[r]) = MaxListLength )
           => ( /\ result' # "Ok"
                /\ doctor_AprovedRequestMap'[r] = doctor_AprovedRequestMap[r]
                /\ (DoctorPending(r, p) /\ ~DoctorApproved(r, p))
                   => result' = "MaxListLengthReached" )
      ]_vars

(* C6 witness: an approval into a full approved list has just failed with  *)
(* MaxListLengthReached and the list still holds MaxListLength accounts.   *)
C6_Witness ==
    /\ call.op = "add_approved_request"
    /\ result = "MaxListLengthReached"
    /\ Len(doctor_AprovedRequestMap[call.who]) = MaxListLength
    /\ ~DoctorApproved(call.who, call.target)

(* C7 as stated: get_patient_data and update_patient_data for a pair that  *)
(* is not approved fail with NotApproved, deposit no event and leave the   *)
(* owner's record unchanged.                                               *)
C7_UnapprovedAccessNotApproved ==
    [][\A o \in Parties, r \in Parties :
        ( /\ \/ Applied("get_patient_data", r, o)
             \/ Applied("update_patient_data", r, o)
          /\ ~PatientApproved(o, r) )
        => ( /\ result' = "NotApproved"
             /\ event'.kind = "NoEvent"
             /\ UNCHANGED patient_DataMap )
      ]_vars

(* C7 as amended: get_patient_data and update_patient_data for a pair that *)
(* is not approved fail with NoRequest (the pallet has no NotApproved      *)
(* error), whether or not the pair is pending, deposit no event and leave  *)
(* all storage unchanged.                                                  *)
C7_UnapprovedAccessRejected ==
    [][\A o \in Parties, r \in Parties :
        ( /\ \/ Applied("get_patient_data", r, o)
             \/ Applied("update_patient_data", r, o)
          /\ ~PatientApproved(o, r) )
        => ( /\ result' = "NoRequest"
             /\ event'.kind = "NoEvent"
             /\ UNCHANGED storageVars )
      ]_vars

(* C7 witness: a get_patient_data for a pair that is pending but not       *)
(* approved has just failed with NoRequest.                                *)
C7_Witness ==
    /\ call.op = "get_patient_data"
    /\ result = "NoRequest"
    /\ PatientPending(call.target, call.who)
    /\ ~PatientApproved(call.target, call.who)

(* C8: a revocation of (owner, requester) removes the pair from whichever  *)
(* of pending and approved holds it, and fails with NoRequest only when    *)
(* neither does.  remove_request is the only removal the pallets have.     *)
C8_RevokeRemovesGrant ==
    [][\A r \in Accounts, p \in Accounts :
        Applied("remove_request", r, p)
        => IF DoctorPending(r, p) \/ DoctorApproved(r, p)
           THEN /\ result' = "Ok"
                /\ ~DoctorPending(r, p)'
                /\ ~DoctorApproved(r, p)'
           ELSE result' = "NoRequest"
      ]_vars

(* C9 as stated: has_role by a signed origin succeeds while the account's  *)
(* flag for the role is true, and fails with NotAssigned once revoke has   *)
(* set it to false.                                                        *)
C9_RevokedRoleNotAssigned ==
    [][\A a \in Parties, u \in Parties, r \in AllRoles :
        Applied("has_role", a, u)
        => /\ MemberRoles[r][u] = Some(TRUE) => result' = "Ok"
           /\ MemberRoles[r][u] = Some(FALSE) => result' = "NotAssigned"
      ]_vars

(* C9 as amended: has_role by a signed origin succeeds while the account's *)
(* flag for the role is true; once revoke has set the flag to false it     *)
(* fails with AccessDenied (NotAssigned is the error for an account that   *)
(* never had the role).                                                    *)
C9_RevokedRoleAccessDenied ==
    [][\A a \in Parties, u \in Parties, r \in AllRoles :
        Applied("has_role", a, u)
        => /\ MemberRoles[r][u] = Some(TRUE) => result' = "Ok"
           /\ MemberRoles[r][u] = Some(FALSE) => result' = "AccessDenied"
           /\ (r \in Roles /\ MemberRoles[r][u] = None) => result' = "NotAssigned"
           /\ UNCHANGED storageVars
      ]_vars

(* C9 witness: has_role has just failed with AccessDenied for an account   *)
(* whose role was assigned and then revoked.                               *)
C9_Witness ==
    /\ call.op = "has_role"
    /\ call.who \in Parties
    /\ result = "AccessDenied"
    /\ MemberRoles[ZeroRole][call.target] = Some(FALSE)

(* C10: a pending request exists only for owners that have a profile       *)
(* (request_patient_data for an owner without one fails and queues         *)
(* nothing).                                                               *)
C10_PendingOnlyForProfiledOwner ==
    \A o \in Accounts, r \in Accounts :
        PatientPending(o, r) => IsSome(patient_DataMap[o])

(* C11: an operation that fails changes no storage; in particular an       *)
(* add_approved_request that fails with AlreadyApproved or                 *)
(* MaxListLengthReached leaves the requester's pending list as it was.     *)
C11_FailedOperationChangesNothing ==
    [][(extrinsic_index' = extrinsic_index + 1 /\ result' # "Ok")
        => UNCHANGED storageVars
      ]_vars

(* C12: the owner-indexed view (pallet-patient's RequestMap and            *)
(* AprovedRequestMap) and the requester-indexed view (pallet-doctor's      *)
(* lists) hold the same pending pairs and the same approved pairs.         *)
C12_ViewsAgree ==
    \A o \in Accounts, r \in Accounts :
        /\ PatientPending(o, r) <=> DoctorPending(r, o)
        /\ PatientApproved(o, r) <=> DoctorApproved(r, o)

(* The correlation ids the patient ledger holds: one per pending pair and  *)
(* one per approved pair.                                                  *)
IdSlots == {"RequestMap", "AprovedRequestMap"} \X Accounts \X Accounts
IdAt(slot) == IF slot[1] = "RequestMap"
              THEN patient_RequestMap[slot[2]][slot[3]]
              ELSE patient_AprovedRequestMap[slot[2]][slot[3]]

(* C13: the correlation ids of request_patient_data calls applied at       *)
(* different extrinsic indices of one block, or in different blocks, are   *)
(* distinct: no two entries of the patient ledger carry the same id.       *)
C13_CorrelationIdsDistinct ==
    \A s \in IdSlots, t \in IdSlots :
        (s # t /\ IsSome(IdAt(s)) /\ IsSome(IdAt(t))) => IdAt(s) # IdAt(t)

(* C13 witness: the ledger holds three ids, two of them issued in the same *)
(* block at different extrinsic indices and the third in another block.    *)
C13_Witness ==
    \E s \in IdSlots, t \in IdSlots, u \in IdSlots :
        /\ IsSome(IdAt(s)) /\ IsSome(IdAt(t)) /\ IsSome(IdAt(u))
        /\ LET a == Unwrap(IdAt(s)).blake2_128
               b == Unwrap(IdAt(t)).blake2_128
               c == Unwrap(IdAt(u)).blake2_128
           IN  /\ a[3] = b[3] /\ a[2] # b[2]
               /\ c[3] # a[3] /\ c[2] = a[2]

(* C14 as stated: a registration for an account that has a profile fails   *)
(* with AlreadyRegistered and changes nothing, and a registration for an   *)
(* account without one creates the profile with the given data_hash        *)
(* (here for the self-registration of a patient by a signed origin).       *)
C14_RegisterCreatesProfile ==
    [][\A a \in Parties, g \in Registrations :
        Extrinsic("register_patient_self", a, a,
                  register_patient_self(Signed(a), g.name, g.email, g.data_hash))
        => IF IsSome(patient_DataMap[a])
           THEN result' = "AlreadyRegistered" /\ UNCHANGED storageVars
           ELSE /\ result' = "Ok"
                /\ IsSome(patient_DataMap'[a])
                /\ Unwrap(patient_DataMap'[a]).data_hash = g.data_hash
      ]_vars

(* C14 as amended: a registration for an account that has a profile fails  *)
(* with AlreadyRegistered and changes nothing.  For an account without a   *)
(* profile, a patient registration whose name or email is longer than its  *)
(* bound fails with BoundsOverflow and changes nothing, and every other    *)
(* one stores the profile with the given name, email and data_hash; a      *)
(* doctor registration stores the given personal_data_hash.  Registration  *)
(* on behalf of a patient is by a caller holding the role.                 *)
C14_RegisterOnce ==
  [][LET Patient(a, g) ==
            IF IsSome(patient_DataMap[a])
            THEN result' = "AlreadyRegistered" /\ UNCHANGED storageVars
            ELSE IF Len(g.name) > MaxNameLength \/ Len(g.email) > MaxEmailLength
            THEN result' = "BoundsOverflow" /\ UNCHANGED storageVars
            ELSE /\ result' = "Ok"
                 /\ patient_DataMap' = [patient_DataMap EXCEPT ![a] =
                        Some([name |-> g.name, email |-> g.email,
                              data_hash |-> g.data_hash])]
                 /\ UNCHANGED <<accessVars, patient_RequestMap,
                                patient_AprovedRequestMap, doctorVars>>
        Doctor(a, h) ==
            IF IsSome(doctor_DataMap[a])
            THEN result' = "AlreadyRegistered" /\ UNCHANGED storageVars
            ELSE /\ result' = "Ok"
                 /\ doctor_DataMap' = [doctor_DataMap EXCEPT ![a] =
                        Some([personal_data_hash |-> h])]
                 /\ UNCHANGED <<accessVars, patientVars, doctor_RequestMap,
                                doctor_AprovedRequestMap>>
    IN  /\ \A a \in Parties, g \in Registrations :
                Extrinsic("register_patient_self", a, a,
                          register_patient_self(Signed(a), g.name, g.email, g.data_hash))
                => Patient(a, g)
        /\ \A a \in Parties, p \in Parties, g \in Registrations :
                ( /\ Extrinsic("register_patient", a, p,
                               register_patient(Signed(a), p, g.name, g.email, g.data_hash))
                  /\ ZeroRole \in Roles
                  /\ MemberRoles[ZeroRole][a] = Some(TRUE) )
                => Patient(p, g)
        /\ \A a \in Parties, h \in Hashes :
                Extrinsic("register", a, a, doctor_register(Signed(a), h))
                => Doctor(a, h)
  ]_vars

(* C14 witness: a registration on behalf of a patient has just failed with *)
(* AlreadyRegistered for an account whose profile holds a data_hash, and   *)
(* some account has a doctor profile.                                      *)
C14_Witness ==
    /\ call.op = "register_patient"
    /\ result = "AlreadyRegistered"
    /\ IsSome(patient_DataMap[call.target])
    /\ IsSome(Unwrap(patient_DataMap[call.target]).data_hash)
    /\ \E d \in Parties : IsSome(doctor_DataMap[d])

(* C15: get_patient_data for an approved pair whose owner has no stored    *)
(* payload (no profile, or a profile whose data_hash is None) returns the  *)
(* error NoData: it does not panic, emits no RequestFulfilled and changes  *)
(* no storage.                                                             *)
C15_ReadWithoutPayloadNoData ==
    [][\A r \in Parties, o \in Parties :
        ( /\ Applied("get_patient_data", r, o)
          /\ PatientApproved(o, r)
          /\ \/ ~IsSome(patient_DataMap[o])
             \/ ~IsSome(Unwrap(patient_DataMap[o]).data_hash) )
        => /\ result' = "NoData"
           /\ event'.kind # "RequestFulfilled"
           /\ UNCHANGED storageVars
      ]_vars

(* C16: in every reachable state of the doctor ledger no account appears   *)
(* twice in a requester's pending list, and none twice in a requester's    *)
(* approved list.                                                          *)
C16_NoDuplicatesInLists ==
    \A r \in Accounts :
        /\ \A i \in 1..Len(doctor_RequestMap[r]), j \in 1..Len(doctor_RequestMap[r]) :
                doctor_RequestMap[r][i] = doctor_RequestMap[r][j] => i = j
        /\ \A i \in 1..Len(doctor_AprovedRequestMap[r]),
              j \in 1..Len(doctor_AprovedRequestMap[r]) :
                doctor_AprovedRequestMap[r][i] = doctor_AprovedRequestMap[r][j] => i = j

(* C16 witness: add_request has just been refused for an account that is   *)
(* already in the requester's pending list, next to another member, while  *)
(* the requester's approved list has a member too.                         *)
C16_Witness ==
    /\ call.op = "add_request"
    /\ result = "AlreadyRequested"
    /\ Len(doctor_RequestMap[call.who]) = 2
    /\ Len(doctor_AprovedRequestMap[call.who]) >= 1

(* C17 as stated: assign by root fails with InvalidRole when the role is   *)
(* not registered and with AlreadyAssigned when the account's flag for the *)
(* role is true, changing nothing; otherwise (no flag, or a flag that      *)
(* revoke has set to false) it succeeds and sets the flag to true.         *)
C17_AssignAlreadyAssigned ==
    [][\A u \in Parties, r \in AllRoles :
        Applied("assign", Root.who, u)
        => IF r \notin Roles
           THEN result' = "InvalidRole" /\ UNCHANGED storageVars
           ELSE IF MemberRoles[r][u] = Some(TRUE)
           THEN result' = "AlreadyAssigned" /\ UNCHANGED storageVars
           ELSE result' = "Ok" /\ MemberRoles'[r][u] = Some(TRUE)
      ]_vars

(* C17 as amended: the error for a flag that is true is AlreadyHasRole.    *)
(* assign by root fails with InvalidRole when the role is not registered   *)
(* and with AlreadyHasRole when the account's flag for the role is true,   *)
(* changing nothing; otherwise (no flag, or a flag that revoke has set to  *)
(* false) it succeeds, sets that flag to true and changes no other.        *)
C17_AssignSetsFlag ==
    [][\A u \in Parties, r \in AllRoles :
        Applied("assign", Root.who, u)
        => IF r \notin Roles
           THEN result' = "InvalidRole" /\ UNCHANGED storageVars
           ELSE IF MemberRoles[r][u] = Some(TRUE)
           THEN result' = "AlreadyHasRole" /\ UNCHANGED storageVars
           ELSE /\ result' = "Ok"
                /\ MemberRoles' = [MemberRoles EXCEPT ![r][u] = Some(TRUE)]
                /\ UNCHANGED <<Roles, patientVars, doctorVars>>
      ]_vars

(* C17 witness: an assign has just failed with AlreadyHasRole for an       *)
(* account whose flag is true, while another account's flag is false after *)
(* a revoke.                                                               *)
C17_Witness ==
    /\ call.op = "assign"
    /\ result = "AlreadyHasRole"
    /\ MemberRoles[ZeroRole][call.target] = Some(TRUE)
    /\ \E u \in Parties : MemberRoles[ZeroRole][u] = Some(FALSE)

(* C18: register_patient and update_patient_data take effect only for a    *)
(* caller that holds role [0u8; 32] (the role is registered and the        *)
(* caller's flag is true); for any other caller, one whose role has been   *)
(* revoked included, they fail and change no storage.                      *)
C18_PrivilegedCallsNeedRole ==
    [][\A a \in Parties, p \in Parties :
        ( /\ \/ Applied("register_patient", a, p)
             \/ Applied("update_patient_data", a, p)
          /\ ~(ZeroRole \in Roles /\ MemberRoles[ZeroRole][a] = Some(TRUE)) )
        => /\ result' # "Ok"
           /\ UNCHANGED storageVars
      ]_vars

(* C18 witness: update_patient_data has just failed with AccessDenied for  *)
(* a caller that holds an approved grant and whose role has been revoked.  *)
C18_Witness ==
    /\ call.op = "update_patient_data"
    /\ result = "AccessDenied"
    /\ PatientApproved(call.target, call.who)
    /\ MemberRoles[ZeroRole][call.who] = Some(FALSE)

(* C19: a profile is created only by registration: an account gets its     *)
(* entry in the patient DataMap in a successful register_patient_self or   *)
(* register_patient for that account, never in an update_patient_data.     *)
C19_ProfileOnlyByRegistration ==
    [][\A a \in Accounts :
        (~IsSome(patient_DataMap[a]) /\ IsSome(patient_DataMap'[a]))
        => /\ call'.op \in {"register_patient_self", "register_patient"}
           /\ call'.target = a
           /\ result' = "Ok"
      ]_vars

(* C20: a successful approve_request(o, r) changes the pending and the     *)
(* approved entry of no pair other than (o, r), their ids included; and a  *)
(* removal of patient p from requester r's pending list (by remove_request *)
(* or by add_approved_request) removes p, keeps every other member of the  *)
(* list and changes no list of another requester.                          *)
C20_ExactPairOnly ==
    [][/\ \A o \in Parties, r \in Parties :
            (Applied("approve_request", o, r) /\ result' = "Ok")
            => \A o2 \in Accounts, r2 \in Accounts :
                    <<o2, r2>> # <<o, r>>
                    => /\ patient_RequestMap'[o2][r2] = patient_RequestMap[o2][r2]
                       /\ patient_AprovedRequestMap'[o2][r2] =
                              patient_AprovedRequestMap[o2][r2]
       /\ \A r \in Parties, p \in Parties :
            ( /\ \/ Applied("remove_request", r, p)
                 \/ Applied("add_approved_request", r, p)
              /\ DoctorPending(r, p) )
            => /\ ~DoctorPending(r, p)'
               /\ Len(doctor_RequestMap'[r]) = Len(doctor_RequestMap[r]) - 1
               /\ \A q \in Accounts :
                    q # p => (DoctorPending(r, q)' <=> DoctorPending(r, q))
               /\ \A r2 \in Accounts :
                    r2 # r => /\ doctor_RequestMap'[r2] = doctor_RequestMap[r2]
                              /\ doctor_AprovedRequestMap'[r2] =
                                     doctor_AprovedRequestMap[r2]
      ]_vars

(* C20 witness: remove_request has just taken one of two members out of a  *)
(* requester's pending list, and the patient ledger holds an approved pair *)
(* next to a pending one.                                                  *)
C20_Witness ==
    /\ call.op = "remove_request"
    /\ result = "Ok"
    /\ Len(doctor_RequestMap[call.who]) = 1
    /\ \E o \in Parties, r \in Parties, o2 \in Parties, r2 \in Parties :
            PatientApproved(o, r) /\ PatientPending(o2, r2) /\ <<o, r>> # <<o2, r2>>

====
